---- MODULE Spec2Model ----
(***************************************************************************)
(* A model of the chat backend: the identity store and the JWT middleware  *)
(* (controllers/authController.js, models/User.js), the chat collection    *)
(* with its embedded message log (models/Chat.js), the chat handlers       *)
(* (controllers/chatController.js) and the gateway to the text generation  *)
(* provider (services/aiService.js).                                       *)
(*                                                                         *)
(* A handler is cut at its await points: what runs between two awaits is   *)
(* one step.  A storage call takes effect in the step that follows it.     *)
(* What a step of a handler does is an operator of the state and of the    *)
(* request: the response it sends (NoRes when it sends none) and what it   *)
(* leaves in the store; the action of the step applies it.                 *)
(***************************************************************************)
EXTENDS Integers, Sequences, FiniteSets, TLC

VARIABLES users, issued, loggedOut, chats, nextId, now, reqs

vars == <<users, issued, loggedOut, chats, nextId, now, reqs>>

(***************************************************************************)
(* Bounds of the model.                                                    *)
(***************************************************************************)
MaxChats == 2          \* chat documents constructed
MaxMsgs == 3           \* messages stored in the collection
MaxTime == 1           \* clock readings, in milliseconds, of the chat runs
MaxRand == 1           \* values Math.random() can take
MaxInFlight == 1       \* requests between two of their await points
MaxUsers == 2          \* identities stored
MaxTokens == 3         \* tokens issued
MaxAge == 3            \* half lifetimes of a token the authentication runs last
MaxSignups == 2        \* signup requests between two of their await points

Min(a, b) == IF a < b THEN a ELSE b

(***************************************************************************)
(* Strings.  A string is the text id with pad white-space characters       *)
(* around it and core characters from its first to its last non-blank one; *)
(* cut says that it is the 50-character prefix of id followed by "...".    *)
(***************************************************************************)
Str(id, core, pad) == [id |-> id, core |-> core, pad |-> pad, cut |-> FALSE]
UndefStr == Str("undefined", 0, 0)
EmptyStr == Str("", 0, 0)
Length(s) == s.core + s.pad
Trim(s) == IF s.core = 0 THEN EmptyStr ELSE [s EXCEPT !.pad = 0]
Falsy(s) == s = UndefStr \/ Length(s) = 0

TitlePrefixLen == 50
EllipsisLen == 3
\* a title that is the whole message
TitleFromWhole(s) == s

\* s.substring(0, 50) + (s.length > 50 ? '...' : ''), s without white space around it
TitleFrom(s) ==
    IF Length(s) > TitlePrefixLen
    THEN [id |-> s.id, core |-> TitlePrefixLen + EllipsisLen, pad |-> 0, cut |-> TRUE]
    ELSE s

(***************************************************************************)
(* models/Chat.js: the message sub-document and the chat document.         *)
(***************************************************************************)
MaxContentLen == 5000
MaxTitleLen == 100
DefaultTitle == Str("New Chat", 8, 0)
Senders == {"user", "ai"}

\* messageSchema: content is trimmed by its setter, then required, minlength 1,
\* maxlength 5000; sender is one of the enum.
CastMessage(m) == [m EXCEPT !.content = Trim(m.content)]
ValidMessage(m) ==
    /\ Length(m.content) >= 1
    /\ Length(m.content) <= MaxContentLen
    /\ m.sender \in Senders

\* chatSchema.title: trimmed, required, maxlength 100
ValidTitle(t) == Length(t) >= 1 /\ Length(t) <= MaxTitleLen

NoDoc ==
    [userId |-> 0, title |-> EmptyStr, messages |-> <<>>, isActive |-> FALSE,
     lastMessageAt |-> 0]

\* new Chat({userId, title, messages: [], isActive: true}); lastMessageAt
\* defaults to Date.now
NewChat(userId, title, t) ==
    [userId |-> userId, title |-> Trim(title), messages |-> <<>>,
     isActive |-> TRUE, lastMessageAt |-> t]

\* an append that stamps the message with the epoch instead of the clock
addMessageAtEpoch(doc, content, sender, t, rnd) ==
    LET newMessage == CastMessage([content |-> content, sender |-> sender,
                                   messageId |-> <<t, rnd>>, timestamp |-> 0])
    IN  [doc EXCEPT !.messages = Append(@, newMessage), !.lastMessageAt = t]

\* chatSchema.methods.addMessage, run at clock reading t with Math.random()
\* giving rnd
addMessage(doc, content, sender, t, rnd) ==
    LET newMessage == CastMessage([content |-> content, sender |-> sender,
                                   messageId |-> <<t, rnd>>, timestamp |-> t])
    IN  [doc EXCEPT !.messages = Append(@, newMessage), !.lastMessageAt = t]

\* chatSchema.pre('save')
preSave(doc, isNew) ==
    LET d1 == IF Len(doc.messages) > 0
              THEN [doc EXCEPT !.lastMessageAt = doc.messages[Len(doc.messages)].timestamp]
              ELSE doc
    IN  IF isNew /\ Len(d1.messages) > 0 /\ ~Falsy(d1.messages[1].content)
        THEN [d1 EXCEPT !.title = TitleFrom(d1.messages[1].content)]
        ELSE d1

\* Array.prototype.sort((a, b) => b.timestamp - a.timestamp): stable, newest first
RECURSIVE InsertDesc(_, _)
InsertDesc(sorted, m) ==
    IF sorted = <<>> THEN <<m>>
    ELSE IF Head(sorted).timestamp >= m.timestamp
         THEN <<Head(sorted)>> \o InsertDesc(Tail(sorted), m)
         ELSE <<m>> \o sorted

RECURSIVE SortDesc(_)
SortDesc(ms) ==
    IF ms = <<>> THEN <<>>
    ELSE InsertDesc(SortDesc(SubSeq(ms, 1, Len(ms) - 1)), ms[Len(ms)])

Reverse(s) == [i \in 1..Len(s) |-> s[Len(s) + 1 - i]]

\* Array.prototype.slice(0, limit)
SliceFromStart(s, limit) ==
    IF limit >= 0 THEN SubSeq(s, 1, Min(limit, Len(s)))
    ELSE SubSeq(s, 1, Len(s) + limit)

\* chatSchema.methods.getRecentMessages
getRecentMessages(doc, limit) == Reverse(SliceFromStart(SortDesc(doc.messages), limit))

\* chatSchema.methods.getMessageCount
getMessageCount(doc) == Len(doc.messages)

(***************************************************************************)
(* The chat collection.  messageSchema declares messageId unique, which    *)
(* makes a unique multikey index on messages.messageId: the keys of a      *)
(* document are the ids of its messages, or the null key when it has none, *)
(* and no key may belong to two documents.                                 *)
(***************************************************************************)
NullKey == <<-1, 0>>
IndexKeys(doc) ==
    IF doc.messages = <<>> THEN {NullKey}
    ELSE {doc.messages[i].messageId : i \in DOMAIN doc.messages}

\* the write of document id as doc would break the unique index (E11000)
DuplicateKey(id, doc) ==
    \E other \in DOMAIN chats \ {id} : IndexKeys(doc) \cap IndexKeys(chats[other]) # {}

\* a lookup by _id alone: Chat.findById(id)
findById(id, userId) == id \in DOMAIN chats

\* Chat.findOne({ _id, userId })
findOne(id, userId) == id \in DOMAIN chats /\ chats[id].userId = userId

StoredMsgs == LET RECURSIVE Sum(_)
                  Sum(S) == IF S = {} THEN 0
                            ELSE LET c == CHOOSE x \in S : TRUE
                                 IN  Len(chats[c].messages) + Sum(S \ {c})
              IN  Sum(DOMAIN chats)

(***************************************************************************)
(* services/aiService.js: the gateway.  up is what the provider does with  *)
(* the call: the process has no API key ("noConfig"), fetch or the parsing *)
(* of the body throws ("throw"), a status that is not 2xx ("http"), or a   *)
(* 2xx JSON body ("ok") with or without a candidate and its text.          *)
(***************************************************************************)
Upstream(kind, status, hasCandidate, text) ==
    [kind |-> kind, status |-> status, hasCandidate |-> hasCandidate, text |-> text]

AiResult(success, content, error) ==
    [success |-> success, content |-> content, error |-> error]
NoAi == AiResult(FALSE, EmptyStr, "null")

NotConfiguredText ==
    Str("AI service is not configured. Please set up your Gemini API key in the .env file.", 81, 0)
ProvideMessageText == Str("Please provide a valid message.", 31, 0)
AuthFailedText ==
    Str("AI service authentication failed. Please check API key configuration.", 69, 0)
BusyText == Str("AI service is currently busy. Please try again in a moment.", 59, 0)
UnavailableText ==
    Str("AI service is temporarily unavailable. Please try again later.", 62, 0)
FailedText == Str("Failed to get AI response. Please try again.", 44, 0)
UnexpectedFormatText == Str("AI service returned an unexpected response format.", 50, 0)

\* Array.prototype.slice(-n)
SliceFromEnd(s, n) == SubSeq(s, Len(s) - Min(n, Len(s)) + 1, Len(s))

ContextLimit == 10

\* the text generateAIResponse sends upstream, line by line: the last ten
\* entries of chatHistory, each under its role, then the user message
conversationText(userMessage, chatHistory) ==
    LET recentHistory == SliceFromEnd(chatHistory, ContextLimit)
    IN  [i \in DOMAIN recentHistory |->
            [role |-> IF recentHistory[i].sender = "user" THEN "User" ELSE "Assistant",
             content |-> recentHistory[i].content]]
        \o <<[role |-> "User", content |-> Trim(userMessage)]>>

\* a gateway whose failures carry neither a text nor a reason
generateAIResponseBare(userMessage, chatHistory, up) ==
    IF up.kind = "ok" /\ up.hasCandidate /\ up.text # UndefStr
    THEN AiResult(TRUE, up.text, "null")
    ELSE NoAi

generateAIResponse(userMessage, chatHistory, up) ==
    IF up.kind = "noConfig"
    THEN AiResult(FALSE, NotConfiguredText, "GEMINI_API_KEY is not set or is using placeholder value")
    ELSE IF Falsy(userMessage) \/ Length(Trim(userMessage)) = 0
    THEN AiResult(FALSE, ProvideMessageText, "Empty message provided")
    ELSE IF up.kind = "throw"
    THEN AiResult(FALSE, UnavailableText, "error.message")
    ELSE IF up.kind = "http"
    THEN IF up.status = 401 THEN AiResult(FALSE, AuthFailedText, "Invalid API key")
         ELSE IF up.status = 429 THEN AiResult(FALSE, BusyText, "Rate limit exceeded")
         ELSE IF up.status >= 500 THEN AiResult(FALSE, UnavailableText, "Server error")
         ELSE AiResult(FALSE, FailedText, "API error")
    ELSE IF up.hasCandidate
    THEN IF up.text = UndefStr
         THEN AiResult(FALSE, UnavailableText, "error.message")
         ELSE AiResult(TRUE, up.text, "null")
    ELSE AiResult(FALSE, UnexpectedFormatText, "Invalid response format")

(***************************************************************************)
(* models/User.js: identities.  An e-mail address is its lower-case text,  *)
(* whether it is written in upper case, and whether it matches             *)
(* /^[^\s@]+@[^\s@]+\.[^\s@]+$/.  A password is its first 72 bytes (head), *)
(* what follows them (tail) and its length.                                *)
(***************************************************************************)
Email(text, upper, wellFormed) == [text |-> text, upper |-> upper, wellFormed |-> wellFormed]
NoEmail == Email("", FALSE, FALSE)
toLowerCase(e) == [e EXCEPT !.upper = FALSE]
emailRegexTest(e) == e.wellFormed

Password(head, tail, len) == [head |-> head, tail |-> tail, len |-> len]
NoPassword == Password("", "", 0)

SaltRounds == 12
BcryptInputBytes == 72
MinPasswordLen == 6
MinNameLen == 2
MaxNameLen == 50

\* bcrypt.hash(password, 12): bcrypt reads the first 72 bytes of its input
bcryptHash(pw) == [cost |-> SaltRounds, digest |-> pw.head]
\* bcrypt.compare(candidate, hash)
bcryptCompare(candidate, hash) == hash.digest = candidate.head

\* userSchema.statics.findByEmail: the ids stored with email.toLowerCase()
findByEmail(e) == {id \in DOMAIN users : users[id].email = toLowerCase(e)}

\* userSchema.methods.getPublicProfile
NoProfile == [id |-> 0, name |-> EmptyStr, email |-> NoEmail]
getPublicProfile(id) == [id |-> id, name |-> users[id].name, email |-> users[id].email]

(***************************************************************************)
(* controllers/authController.js: tokens.  A token is its dot-delimited    *)
(* segments; the signature segment names the key that made it and the      *)
(* payload it was made over.                                               *)
(***************************************************************************)
JwtSecret == "JWT_SECRET"
ExpiresInSeconds == 604800
MsPerSecond == 1000

NoPayload == [id |-> 0, email |-> NoEmail, name |-> EmptyStr, iat |-> 0, exp |-> 0]
Segment(part, payload, key) == [part |-> part, payload |-> payload, key |-> key]

\* jwt.sign(payload, key, { expiresIn }) at clock reading t
jwtSign(claims, key, t) ==
    LET payload == [claims EXCEPT !.iat = t \div MsPerSecond,
                                  !.exp = (t \div MsPerSecond) + ExpiresInSeconds]
    IN  <<Segment("header", NoPayload, ""), Segment("payload", payload, ""),
          Segment("signature", payload, key)>>

\* generateToken(user) at clock reading t, user the identity stored as id
generateToken(id, user, t) ==
    jwtSign([NoPayload EXCEPT !.id = id, !.email = user.email, !.name = user.name],
            JwtSecret, t)

\* a verification that reads no expiry
jwtVerifyIgnoringExpiry(token, key, t) ==
    IF token[1].part # "header" \/ token[2].part # "payload"
    THEN "JsonWebTokenError"
    ELSE IF token[3] # Segment("signature", token[2].payload, key)
    THEN "JsonWebTokenError"
    ELSE "ok"

\* jwt.verify(token, key) at clock reading t, for a token of three segments
jwtVerify(token, key, t) ==
    IF token[1].part # "header" \/ token[2].part # "payload"
    THEN "JsonWebTokenError"
    ELSE IF token[3] # Segment("signature", token[2].payload, key)
    THEN "JsonWebTokenError"
    ELSE IF t \div MsPerSecond >= token[2].payload.exp
    THEN "TokenExpiredError"
    ELSE "ok"

AuthResult(ok, status, message, user) ==
    [ok |-> ok, status |-> status, message |-> message, user |-> user]

\* a middleware whose catch answers every error of jwt.verify alike
authenticateTokenOneMessage(hdr) ==
    IF hdr = <<>>
    THEN AuthResult(FALSE, 401, "Access token required", 0)
    ELSE IF Len(hdr) # 3
    THEN AuthResult(FALSE, 401, "Invalid token format", 0)
    ELSE IF jwtVerify(hdr, JwtSecret, now) # "ok"
    THEN AuthResult(FALSE, 401, "Invalid token", 0)
    ELSE IF hdr[2].payload.id \notin DOMAIN users
    THEN AuthResult(FALSE, 401, "Invalid token - user not found", 0)
    ELSE AuthResult(TRUE, 200, "", hdr[2].payload.id)

\* a middleware that keeps a list of the tokens logged out
authenticateTokenWithBlacklist(hdr) ==
    IF hdr = <<>>
    THEN AuthResult(FALSE, 401, "Access token required", 0)
    ELSE IF Len(hdr) # 3
    THEN AuthResult(FALSE, 401, "Invalid token format", 0)
    ELSE IF jwtVerify(hdr, JwtSecret, now) = "JsonWebTokenError" \/ hdr \in loggedOut
    THEN AuthResult(FALSE, 401, "Invalid token", 0)
    ELSE IF jwtVerify(hdr, JwtSecret, now) = "TokenExpiredError"
    THEN AuthResult(FALSE, 401, "Token expired", 0)
    ELSE IF hdr[2].payload.id \notin DOMAIN users
    THEN AuthResult(FALSE, 401, "Invalid token - user not found", 0)
    ELSE AuthResult(TRUE, 200, "", hdr[2].payload.id)

\* authenticateToken: hdr is the second word of the Authorization header
\* (no segment when the header or the word is missing)
authenticateToken(hdr) ==
    IF hdr = <<>>
    THEN AuthResult(FALSE, 401, "Access token required", 0)
    ELSE IF Len(hdr) # 3
    THEN AuthResult(FALSE, 401, "Invalid token format", 0)
    ELSE IF jwtVerify(hdr, JwtSecret, now) = "JsonWebTokenError"
    THEN AuthResult(FALSE, 401, "Invalid token", 0)
    ELSE IF jwtVerify(hdr, JwtSecret, now) = "TokenExpiredError"
    THEN AuthResult(FALSE, 401, "Token expired", 0)
    ELSE IF hdr[2].payload.id \notin DOMAIN users
    THEN AuthResult(FALSE, 401, "Invalid token - user not found", 0)
    ELSE AuthResult(TRUE, 200, "", hdr[2].payload.id)

(***************************************************************************)
(* Requests and responses.                                                 *)
(***************************************************************************)
\* a chat id as a client sends it: none, a string that is not 24 hexadecimal
\* characters, or the ObjectId number n
Cid(kind, n) == [kind |-> kind, n |-> n]
NoCid == Cid("absent", 0)
MalformedCid == Cid("malformed", 0)
Oid(n) == Cid("oid", n)

\* a request between two of its await points
IdleReq ==
    [op |-> "none", pc |-> "idle", user |-> 0, cid |-> NoCid, message |-> UndefStr,
     isNew |-> FALSE, docId |-> 0, doc |-> NoDoc, loaded |-> 0, cleanAt |-> 0,
     ai |-> NoAi,
     limit |-> 0, page |-> 0, items |-> <<>>,
     name |-> UndefStr, email |-> NoEmail, password |-> NoPassword]

NoPagination ==
    [currentPage |-> 0, totalPages |-> 0, totalChats |-> 0, hasNextPage |-> FALSE,
     hasPrevPage |-> FALSE, limit |-> 0]

NoToken == <<>>

\* a response: the request it answers (op, user, cid, text, hdr, req), its
\* status and message, and the fields of its data
NoRes ==
    [op |-> "none", user |-> 0, cid |-> NoCid, text |-> UndefStr, hdr |-> NoToken,
     req |-> IdleReq, status |-> 0, message |-> "",
     chatId |-> 0, title |-> EmptyStr, isActive |-> FALSE, lastMessageAt |-> 0,
     messages |-> <<>>, messageCount |-> 0, aiServiceStatus |-> "", aiError |-> "null",
     chats |-> <<>>, pagination |-> NoPagination,
     token |-> NoToken, profile |-> NoProfile]

ChatRes(op, user, cid, text, status, message) ==
    [NoRes EXCEPT !.op = op, !.user = user, !.cid = cid, !.text = text,
                  !.status = status, !.message = message]

InFlight == {s \in DOMAIN reqs : reqs[s].pc # "idle"}

\* messages the requests in flight may still store
Pending ==
    LET left(s) == IF reqs[s].op # "sendMessage" THEN 0
                   ELSE IF reqs[s].pc = "saveUser" THEN 2 ELSE 1
        RECURSIVE Sum(_)
        Sum(S) == IF S = {} THEN 0
                  ELSE LET s == CHOOSE x \in S : TRUE IN left(s) + Sum(S \ {s})
    IN  Sum(InFlight)

Budget == StoredMsgs + Pending + 2 <= MaxMsgs

(***************************************************************************)
(* controllers/chatController.js.  Every chat route runs authenticateToken *)
(* first (routes/chatRoutes.js: router.use); req.user is the identity it   *)
(* found.  The outcome of a step is the response, the chat collection, the *)
(* number of chat documents constructed and the request as the step leaves *)
(* them.                                                                   *)
(***************************************************************************)
RecentLimit == 20
DefaultMessageLimit == 50
DefaultHistoryLimit == 20
MaxHistoryLimit == 100

Outcome(r, c, n, q) == [res |-> r, chats |-> c, nextId |-> n, req |-> q]
\* the step answers r and touches nothing
Answer(r) == Outcome(r, chats, nextId, IdleReq)

Unauthorized(op, hdr, a) ==
    [NoRes EXCEPT !.op = op, !.hdr = hdr, !.status = a.status, !.message = a.message]

\* sendMessage up to its first await on a write: the checks of the body, the
\* lookup of the chat (or the construction of a new one) and addMessage
sendMessageStart(hdr, message, cid, rnd) ==
    LET a == authenticateToken(hdr)
        u == a.user
        R(status, msg) ==
            [ChatRes("sendMessage", u, cid, message, status, msg) EXCEPT !.hdr = hdr]
        base == [IdleReq EXCEPT !.op = "sendMessage", !.pc = "saveUser", !.user = u,
                                !.cid = cid, !.message = message]
    IN  IF ~a.ok THEN Answer(Unauthorized("sendMessage", hdr, a))
        ELSE IF Falsy(message) \/ Length(Trim(message)) = 0
        THEN Answer(R(400, "Message content is required"))
        ELSE IF Length(message) > MaxContentLen
        THEN Answer(R(400, "Message cannot exceed 5000 characters"))
        ELSE IF cid.kind = "malformed"
        \* new Chat({ userId: user._id, ... }): user is not defined
        THEN Answer(R(500, "Internal server error while sending message"))
        ELSE IF cid.kind = "oid"
        THEN IF ~findOne(cid.n, u)
             THEN Answer(R(404, "Chat not found or access denied"))
             ELSE Outcome(NoRes, chats, nextId,
                      [base EXCEPT !.docId = cid.n,
                                   !.loaded = Len(chats[cid.n].messages),
                                   !.cleanAt = chats[cid.n].lastMessageAt,
                                   !.doc = addMessage(chats[cid.n], Trim(message),
                                                      "user", now, rnd)])
        ELSE \* Chat.createNew(userId, message.trim(), 'user')
             Outcome(NoRes, chats, nextId + 1,
                 [base EXCEPT !.docId = nextId + 1, !.isNew = TRUE,
                              !.doc = addMessage(NewChat(u, TitleFrom(Trim(message)), now),
                                                 Trim(message), "user", now, rnd)])

\* a save that writes the document as the request holds it
WholeDocument(r, d) == d

\* the document of request r as chat.save() writes it: an insert of the whole
\* document when it is new, else a $push of the message added and a $set of
\* lastMessageAt when the request changed it: a path assigned the value it
\* had when the document was read or last saved (cleanAt) is not modified
\* and is left out of the update
Written(r, d) ==
    IF r.isNew THEN d
    ELSE [chats[r.docId] EXCEPT !.messages = Append(@, d.messages[Len(d.messages)]),
                                !.lastMessageAt =
                                    IF d.lastMessageAt # r.cleanAt THEN d.lastMessageAt ELSE @]

\* chat.save() succeeds: the message added and, for a new document, the
\* title are valid, and the unique index accepts the write
SaveOk(r, d) ==
    /\ ValidMessage(d.messages[Len(d.messages)])
    /\ r.isNew => ValidTitle(d.title)
    /\ ~DuplicateKey(r.docId, Written(r, d))

Store(id, doc) ==
    IF id \in DOMAIN chats THEN [chats EXCEPT ![id] = doc] ELSE chats @@ (id :> doc)

SendFailed(r) ==
    ChatRes("sendMessage", r.user, r.cid, r.message, 500,
            "Internal server error while sending message")

\* the first chat.save() takes effect and generateAIResponse is called
sendMessageSaveUser(r) ==
    LET d == preSave(r.doc, r.isNew)
    IN  IF SaveOk(r, d)
        THEN Outcome(NoRes, Store(r.docId, Written(r, d)), nextId,
                     [r EXCEPT !.pc = "gateway", !.doc = d, !.isNew = FALSE,
                               !.cleanAt = d.lastMessageAt])
        ELSE Outcome(SendFailed(r), chats, nextId, IdleReq)

\* generateAIResponse returns, and the reply is added to the document
sendMessageGateway(r, up, rnd) ==
    LET aiResponse == generateAIResponse(r.message, r.doc.messages, up)
    IN  Outcome(NoRes, chats, nextId,
                [r EXCEPT !.pc = "saveAI", !.ai = aiResponse,
                          !.doc = addMessage(r.doc, aiResponse.content, "ai", now, rnd)])

\* the second chat.save() takes effect and the response is sent
sendMessageSaveAI(r) ==
    LET d == preSave(r.doc, FALSE)
    IN  IF SaveOk(r, d)
        THEN Outcome([ChatRes("sendMessage", r.user, r.cid, r.message, 200,
                              "Message sent successfully")
                        EXCEPT !.chatId = r.docId,
                               !.messages = getRecentMessages(d, RecentLimit),
                               !.messageCount = getMessageCount(d),
                               !.aiServiceStatus =
                                   IF r.ai.success THEN "success" ELSE "error",
                               !.aiError = IF r.ai.success THEN "null" ELSE r.ai.error],
                     Store(r.docId, Written(r, d)), nextId, IdleReq)
        ELSE Outcome(SendFailed(r), chats, nextId, IdleReq)

\* a getChat that saves the document after getRecentMessages has sorted its
\* messages in place
getChatSavingSorted(hdr, cid, limit) ==
    LET a == authenticateToken(hdr)
        u == a.user
        R(status, msg) ==
            [ChatRes("getChat", u, cid, UndefStr, status, msg) EXCEPT !.hdr = hdr]
    IN  IF ~a.ok THEN Answer(Unauthorized("getChat", hdr, a))
        ELSE IF cid.kind = "malformed"
        THEN Answer(R(400, "Invalid chat ID format"))
        ELSE IF ~findOne(cid.n, u)
        THEN Answer(R(404, "Chat not found or access denied"))
        ELSE Outcome([R(200, "Chat retrieved successfully") EXCEPT !.chatId = cid.n],
                     [chats EXCEPT ![cid.n].messages = SortDesc(@)], nextId, IdleReq)

getChat(hdr, cid, limit) ==
    LET a == authenticateToken(hdr)
        u == a.user
        messageLimit == IF limit = 0 THEN DefaultMessageLimit ELSE limit
        R(status, msg) ==
            [ChatRes("getChat", u, cid, UndefStr, status, msg) EXCEPT !.hdr = hdr]
    IN  IF ~a.ok THEN Answer(Unauthorized("getChat", hdr, a))
        ELSE IF cid.kind = "malformed"
        THEN Answer(R(400, "Invalid chat ID format"))
        ELSE IF ~findOne(cid.n, u)
        THEN Answer(R(404, "Chat not found or access denied"))
        ELSE Answer([R(200, "Chat retrieved successfully")
                       EXCEPT !.chatId = cid.n,
                              !.title = chats[cid.n].title,
                              !.lastMessageAt = chats[cid.n].lastMessageAt,
                              !.messageCount = getMessageCount(chats[cid.n]),
                              !.isActive = chats[cid.n].isActive,
                              !.messages = getRecentMessages(chats[cid.n], messageLimit)])

createNewChat(hdr, title) ==
    LET a == authenticateToken(hdr)
        u == a.user
        newChat == NewChat(u, IF Falsy(title) THEN DefaultTitle ELSE title, now)
        R(status, msg) ==
            [ChatRes("createNewChat", u, NoCid, title, status, msg) EXCEPT !.hdr = hdr]
    IN  IF ~a.ok THEN Answer(Unauthorized("createNewChat", hdr, a))
        ELSE IF ValidTitle(newChat.title) /\ ~DuplicateKey(nextId + 1, newChat)
        THEN Outcome([R(201, "New chat created successfully")
                        EXCEPT !.chatId = nextId + 1, !.title = newChat.title,
                               !.isActive = newChat.isActive],
                     Store(nextId + 1, newChat), nextId + 1, IdleReq)
        ELSE Answer(R(500, "Internal server error while creating new chat"))

\* a deleteChat that updates the chat by its id and looks at the owner after
deleteChatThenCheck(hdr, cid) ==
    LET a == authenticateToken(hdr)
        u == a.user
        R(status, msg) ==
            [ChatRes("deleteChat", u, cid, UndefStr, status, msg) EXCEPT !.hdr = hdr]
    IN  IF ~a.ok THEN Answer(Unauthorized("deleteChat", hdr, a))
        ELSE IF cid.kind = "malformed"
        THEN Answer(R(400, "Invalid chat ID format"))
        ELSE IF ~findById(cid.n, u)
        THEN Answer(R(404, "Chat not found or access denied"))
        ELSE Outcome(IF findOne(cid.n, u)
                     THEN [R(200, "Chat deleted successfully") EXCEPT !.chatId = cid.n]
                     ELSE R(404, "Chat not found or access denied"),
                     [chats EXCEPT ![cid.n].isActive = FALSE], nextId, IdleReq)

deleteChat(hdr, cid) ==
    LET a == authenticateToken(hdr)
        u == a.user
        R(status, msg) ==
            [ChatRes("deleteChat", u, cid, UndefStr, status, msg) EXCEPT !.hdr = hdr]
    IN  IF ~a.ok THEN Answer(Unauthorized("deleteChat", hdr, a))
        ELSE IF cid.kind = "malformed"
        THEN Answer(R(400, "Invalid chat ID format"))
        ELSE IF ~findOne(cid.n, u)
        THEN Answer(R(404, "Chat not found or access denied"))
        ELSE Outcome([R(200, "Chat deleted successfully") EXCEPT !.chatId = cid.n],
                     [chats EXCEPT ![cid.n].isActive = FALSE], nextId, IdleReq)

\* an update of the title without the bound on its length
updateChatTitleUnbounded(hdr, cid, title) ==
    LET a == authenticateToken(hdr)
        u == a.user
        R(status, msg) ==
            [ChatRes("updateChatTitle", u, cid, title, status, msg) EXCEPT !.hdr = hdr]
    IN  IF ~a.ok THEN Answer(Unauthorized("updateChatTitle", hdr, a))
        ELSE IF Falsy(title) \/ Length(Trim(title)) = 0
        THEN Answer(R(400, "Chat title is required"))
        ELSE IF cid.kind = "malformed"
        THEN Answer(R(400, "Invalid chat ID format"))
        ELSE IF ~findOne(cid.n, u)
        THEN Answer(R(404, "Chat not found or access denied"))
        ELSE Outcome([R(200, "Chat title updated successfully")
                        EXCEPT !.chatId = cid.n, !.title = Trim(title)],
                     [chats EXCEPT ![cid.n].title = Trim(title)], nextId, IdleReq)

updateChatTitle(hdr, cid, title) ==
    LET a == authenticateToken(hdr)
        u == a.user
        R(status, msg) ==
            [ChatRes("updateChatTitle", u, cid, title, status, msg) EXCEPT !.hdr = hdr]
    IN  IF ~a.ok THEN Answer(Unauthorized("updateChatTitle", hdr, a))
        ELSE IF Falsy(title) \/ Length(Trim(title)) = 0
        THEN Answer(R(400, "Chat title is required"))
        ELSE IF Length(title) > MaxTitleLen
        THEN Answer(R(400, "Chat title cannot exceed 100 characters"))
        ELSE IF cid.kind = "malformed"
        THEN Answer(R(400, "Invalid chat ID format"))
        ELSE IF ~findOne(cid.n, u)
        THEN Answer(R(404, "Chat not found or access denied"))
        ELSE Outcome([R(200, "Chat title updated successfully")
                        EXCEPT !.chatId = cid.n, !.title = Trim(title)],
                     [chats EXCEPT ![cid.n].title = Trim(title)], nextId, IdleReq)

\* Chat.find({ userId, isActive: true }) and Chat.countDocuments of the same
ActiveChats(u) == {c \in DOMAIN chats : chats[c].userId = u /\ chats[c].isActive}

\* .sort({ lastMessageAt: -1 }): the orders the sort may give; documents with
\* equal keys come in an order the store chooses
SortedByRecency(S) ==
    {o \in [1..Cardinality(S) -> S] :
        /\ \A i, j \in DOMAIN o : i # j => o[i] # o[j]
        /\ \A i, j \in DOMAIN o :
               i < j => chats[o[i]].lastMessageAt >= chats[o[j]].lastMessageAt}

\* .skip(skip).limit(limit)
Page(o, skip, limit) == SubSeq(o, skip + 1, Min(skip + limit, Len(o)))

\* .select('title lastMessageAt messageCount createdAt')
Selected(c) == [id |-> c, title |-> chats[c].title, lastMessageAt |-> chats[c].lastMessageAt]

\* getChatHistory up to the await on Chat.find, which gives the order o
getChatHistoryFind(hdr, limitIn, pageIn, o) ==
    LET a == authenticateToken(hdr)
        u == a.user
        limit == IF limitIn = 0 THEN DefaultHistoryLimit ELSE limitIn
        page == IF pageIn = 0 THEN 1 ELSE pageIn
        skip == (page - 1) * limit
    IN  IF ~a.ok THEN Answer(Unauthorized("getChatHistory", hdr, a))
        ELSE IF limit > MaxHistoryLimit
        THEN Answer([ChatRes("getChatHistory", u, NoCid, UndefStr, 400,
                             "Limit cannot exceed 100") EXCEPT !.hdr = hdr])
        ELSE Outcome(NoRes, chats, nextId,
                 [IdleReq EXCEPT
                     !.op = "getChatHistory", !.pc = "count", !.user = u,
                     !.limit = limit, !.page = page,
                     !.items = [i \in DOMAIN Page(o, skip, limit) |->
                                    Selected(Page(o, skip, limit)[i])]])

\* Chat.countDocuments answers and the response is sent
getChatHistoryCount(r) ==
    LET totalChats == Cardinality(ActiveChats(r.user))
        totalPages == (totalChats + r.limit - 1) \div r.limit
    IN  Answer([ChatRes("getChatHistory", r.user, NoCid, UndefStr, 200,
                        "Chat history retrieved successfully")
                  EXCEPT !.chats = r.items,
                         !.pagination =
                             [currentPage |-> r.page, totalPages |-> totalPages,
                              totalChats |-> totalChats,
                              hasNextPage |-> r.page < totalPages,
                              hasPrevPage |-> r.page > 1, limit |-> r.limit]])

(***************************************************************************)
(* controllers/authController.js: the handlers.  The outcome of a step is  *)
(* the response, the identity collection and the request as the step       *)
(* leaves them.                                                            *)
(***************************************************************************)
AuthOutcome(r, u, q) == [res |-> r, users |-> u, req |-> q]
AuthAnswer(r) == AuthOutcome(r, users, IdleReq)
AuthRes(op, status, message) ==
    [NoRes EXCEPT !.op = op, !.status = status, !.message = message]

\* userSchema: name trimmed, 2 to 50 characters; email matches the pattern;
\* password at least 6 characters
\* a schema without the bounds on the name
ValidUserAnyName(name, email, password) ==
    /\ emailRegexTest(email)
    /\ password.len >= MinPasswordLen

ValidUser(name, email, password) ==
    /\ Length(name) >= MinNameLen
    /\ Length(name) <= MaxNameLen
    /\ emailRegexTest(email)
    /\ password.len >= MinPasswordLen

\* signup up to its await on newUser.save(): the checks of the body and
\* User.findByEmail
signupStart(name, email, password) ==
    IF Falsy(name) \/ email = NoEmail \/ password = NoPassword
    THEN AuthAnswer(AuthRes("signup", 400, "Please provide name, email, and password"))
    ELSE IF ~emailRegexTest(email)
    THEN AuthAnswer(AuthRes("signup", 400, "Please provide a valid email address"))
    ELSE IF password.len < MinPasswordLen
    THEN AuthAnswer(AuthRes("signup", 400, "Password must be at least 6 characters long"))
    ELSE IF findByEmail(email) # {}
    THEN AuthAnswer(AuthRes("signup", 409, "User with this email already exists"))
    ELSE AuthOutcome(NoRes, users,
             [IdleReq EXCEPT !.op = "signup", !.pc = "saveUser", !.name = Trim(name),
                             !.email = toLowerCase(email), !.password = password])

\* a save into a collection without the unique index on email
signupSaveUnindexed(r) ==
    LET newUser == [name |-> r.name, email |-> r.email, password |-> bcryptHash(r.password)]
        id == Len(users) + 1
    IN  IF ~ValidUser(r.name, r.email, r.password)
        THEN AuthAnswer(AuthRes("signup", 400, "Validation error"))
        ELSE AuthOutcome([AuthRes("signup", 201, "User registered successfully")
                            EXCEPT !.token = generateToken(id, newUser, now),
                                   !.profile = [id |-> id, name |-> newUser.name,
                                                email |-> newUser.email]],
                         Append(users, newUser), IdleReq)

\* newUser.save() takes effect (validation, the hash of the password, the
\* unique index on email) and the response is sent
signupSave(r) ==
    LET newUser == [name |-> r.name, email |-> r.email, password |-> bcryptHash(r.password)]
        id == Len(users) + 1
    IN  IF ~ValidUser(r.name, r.email, r.password)
        THEN AuthAnswer(AuthRes("signup", 400, "Validation error"))
        ELSE IF findByEmail(r.email) # {}
        THEN AuthAnswer(AuthRes("signup", 409, "User with this email already exists"))
        ELSE AuthOutcome([AuthRes("signup", 201, "User registered successfully")
                            EXCEPT !.token = generateToken(id, newUser, now),
                                   !.profile = [id |-> id, name |-> newUser.name,
                                                email |-> newUser.email]],
                         Append(users, newUser), IdleReq)

\* a login that tells an unknown address from a wrong password
loginTellingUnknown(email, password) ==
    IF email = NoEmail \/ password = NoPassword
    THEN AuthAnswer(AuthRes("login", 400, "Please provide email and password"))
    ELSE IF findByEmail(email) = {}
    THEN AuthAnswer(AuthRes("login", 404, "User not found"))
    ELSE LET id == CHOOSE i \in findByEmail(email) : TRUE
         IN  IF ~bcryptCompare(password, users[id].password)
             THEN AuthAnswer(AuthRes("login", 401, "Invalid email or password"))
             ELSE AuthAnswer([AuthRes("login", 200, "Login successful")
                                EXCEPT !.token = generateToken(id, users[id], now),
                                       !.profile = getPublicProfile(id)])

login(email, password) ==
    IF email = NoEmail \/ password = NoPassword
    THEN AuthAnswer(AuthRes("login", 400, "Please provide email and password"))
    ELSE IF findByEmail(email) = {}
    THEN AuthAnswer(AuthRes("login", 401, "Invalid email or password"))
    ELSE LET id == CHOOSE i \in findByEmail(email) : TRUE
         IN  IF ~bcryptCompare(password, users[id].password)
             THEN AuthAnswer(AuthRes("login", 401, "Invalid email or password"))
             ELSE AuthAnswer([AuthRes("login", 200, "Login successful")
                                EXCEPT !.token = generateToken(id, users[id], now),
                                       !.profile = getPublicProfile(id)])

\* the routes behind authenticateToken: logout, getProfile and /verify
logout(hdr) ==
    LET a == authenticateToken(hdr)
    IN  IF ~a.ok THEN AuthAnswer(Unauthorized("logout", hdr, a))
        ELSE AuthAnswer([AuthRes("logout", 200, "Logout successful")
                           EXCEPT !.hdr = hdr, !.user = a.user])

getProfile(hdr) ==
    LET a == authenticateToken(hdr)
    IN  IF ~a.ok THEN AuthAnswer(Unauthorized("getProfile", hdr, a))
        ELSE AuthAnswer([AuthRes("getProfile", 200, "Profile retrieved successfully")
                           EXCEPT !.hdr = hdr, !.user = a.user,
                                  !.profile = getPublicProfile(a.user)])

verify(hdr) ==
    LET a == authenticateToken(hdr)
    IN  IF ~a.ok THEN AuthAnswer(Unauthorized("verify", hdr, a))
        ELSE AuthAnswer([AuthRes("verify", 200, "Token is valid")
                           EXCEPT !.hdr = hdr, !.user = a.user,
                                  !.profile = getPublicProfile(a.user)])

(***************************************************************************)
(* The steps.                                                              *)
(***************************************************************************)
\* slot s takes the step whose outcome is out
Step(s, out) ==
    /\ chats' = out.chats
    /\ nextId' = out.nextId
    /\ reqs' = [reqs EXCEPT ![s] = out.req]
    /\ UNCHANGED <<users, issued, loggedOut, now>>

\* a request that is answered in its first step occupies no slot
Atomic(out) ==
    /\ chats' = out.chats
    /\ nextId' = out.nextId
    /\ UNCHANGED <<users, issued, loggedOut, now, reqs>>

SendStart(s, hdr, message, cid, rnd) ==
    /\ reqs[s].pc = "idle"
    /\ LET out == sendMessageStart(hdr, message, cid, rnd)
       IN  /\ out.req.pc # "idle" => Budget /\ out.nextId <= MaxChats
           /\ Step(s, out)

SendSaveUser(s) ==
    /\ reqs[s].op = "sendMessage"
    /\ reqs[s].pc = "saveUser"
    /\ Step(s, sendMessageSaveUser(reqs[s]))

SendGateway(s, up, rnd) ==
    /\ reqs[s].op = "sendMessage"
    /\ reqs[s].pc = "gateway"
    /\ Step(s, sendMessageGateway(reqs[s], up, rnd))

SendSaveAI(s) ==
    /\ reqs[s].op = "sendMessage"
    /\ reqs[s].pc = "saveAI"
    /\ Step(s, sendMessageSaveAI(reqs[s]))

GetChat(hdr, cid, limit) == Atomic(getChat(hdr, cid, limit))

CreateNewChat(hdr, title) ==
    /\ createNewChat(hdr, title).nextId <= MaxChats
    /\ Atomic(createNewChat(hdr, title))

DeleteChat(hdr, cid) == Atomic(deleteChat(hdr, cid))

UpdateChatTitle(hdr, cid, title) == Atomic(updateChatTitle(hdr, cid, title))

HistoryFind(s, hdr, limitIn, pageIn) ==
    /\ reqs[s].pc = "idle"
    /\ \E o \in SortedByRecency(ActiveChats(authenticateToken(hdr).user)) :
           Step(s, getChatHistoryFind(hdr, limitIn, pageIn, o))

HistoryCount(s) ==
    /\ reqs[s].op = "getChatHistory"
    /\ reqs[s].pc = "count"
    /\ Step(s, getChatHistoryCount(reqs[s]))

\* the clock of the process advances by step milliseconds
Tick(step, bound) ==
    /\ now + step <= bound
    /\ now' = now + step
    /\ UNCHANGED <<users, issued, loggedOut, chats, nextId, reqs>>

(***************************************************************************)
(* The chat runs: two identities are registered and hold the tokens their  *)
(* signup issued; the chat collection is empty.                            *)
(***************************************************************************)
Slots == 1..MaxInFlight
Rands == 1..MaxRand

Ada == [name |-> Str("Ada", 3, 0), email |-> Email("ada@x.com", FALSE, TRUE),
        password |-> bcryptHash(Password("secret1", "", 7))]
Bob == [name |-> Str("Bob", 3, 0), email |-> Email("bob@x.com", FALSE, TRUE),
        password |-> bcryptHash(Password("hunter22", "", 8))]

Hello == Str("Hello!", 6, 0)
MessageInputs ==
    {UndefStr, Str("", 0, 3), Hello, Str("long message", 5001, 0),
     Str("padded message", 4999, 2)}
TitleInputs == {UndefStr, Hello, Str("hundred and one", 101, 0)}
ChatIds == {MalformedCid} \cup {Oid(n) : n \in 1..MaxChats}
MessageLimits == {0, 1}
\* limit and page of a history query; 0 stands for a parameter left out
HistoryQueries == {<<0, 0>>, <<1, 2>>, <<101, 0>>}
Upstreams ==
    {Upstream("ok", 200, TRUE, Str("Hi there", 8, 0)),
     Upstream("ok", 200, TRUE, EmptyStr),
     Upstream("ok", 200, TRUE, Str("essay", 5001, 0)),
     Upstream("http", 429, FALSE, UndefStr),
     Upstream("throw", 0, FALSE, UndefStr)}
Headers == issued \cup {NoToken}

Init ==
    /\ users = <<Ada, Bob>>
    /\ issued = {generateToken(1, Ada, 0), generateToken(2, Bob, 0)}
    /\ loggedOut = {}
    /\ chats = <<>>
    /\ nextId = 0
    /\ now = 0
    /\ reqs = [s \in Slots |-> IdleReq]

DoSendStart ==
    \E s \in Slots, hdr \in Headers, m \in MessageInputs,
       cid \in ChatIds \cup {NoCid}, rnd \in Rands : SendStart(s, hdr, m, cid, rnd)
DoSendSaveUser == \E s \in Slots : SendSaveUser(s)
DoSendGateway == \E s \in Slots, up \in Upstreams, rnd \in Rands : SendGateway(s, up, rnd)
DoSendSaveAI == \E s \in Slots : SendSaveAI(s)
DoGetChat == \E hdr \in Headers, cid \in ChatIds, l \in MessageLimits : GetChat(hdr, cid, l)
DoCreateNewChat == \E hdr \in Headers, t \in TitleInputs : CreateNewChat(hdr, t)
DoDeleteChat == \E hdr \in Headers, cid \in ChatIds : DeleteChat(hdr, cid)
DoUpdateChatTitle ==
    \E hdr \in Headers, cid \in ChatIds, t \in TitleInputs : UpdateChatTitle(hdr, cid, t)
DoHistoryFind ==
    \E s \in Slots, hdr \in Headers, q \in HistoryQueries : HistoryFind(s, hdr, q[1], q[2])
DoHistoryCount == \E s \in Slots : HistoryCount(s)
TickMs == Tick(1, MaxTime)

Next ==
    \/ DoSendStart
    \/ DoSendSaveUser
    \/ DoSendGateway
    \/ DoSendSaveAI
    \/ DoGetChat
    \/ DoCreateNewChat
    \/ DoDeleteChat
    \/ DoUpdateChatTitle
    \/ DoHistoryFind
    \/ DoHistoryCount
    \/ TickMs

Spec == Init /\ [][Next]_vars

(***************************************************************************)
(* The authentication runs: the identity collection is empty, clients sign *)
(* up, log in and out and present the tokens they were given, or what they *)
(* make of them, while the clock advances past the lifetime of a token.    *)
(***************************************************************************)
\* what a step of an authentication handler leaves besides the requests
\* in flight; loggedOut remembers the tokens logout has answered 200 for,
\* which the program itself does not
AuthEffect(out) ==
    /\ users' = out.users
    /\ issued' = issued \cup ({out.res.token} \ {NoToken})
    /\ loggedOut' = loggedOut \cup
                        (IF out.res.op = "logout" /\ out.res.status = 200
                         THEN {out.res.hdr} ELSE {})
    /\ UNCHANGED <<chats, nextId, now>>

\* slot s takes the step whose outcome is out
AuthStep(s, out) == AuthEffect(out) /\ reqs' = [reqs EXCEPT ![s] = out.req]

\* a request that is answered in its first step occupies no slot
AuthAtomic(out) == AuthEffect(out) /\ UNCHANGED reqs

\* a token is left to issue
TokenBudget ==
    Cardinality(issued) + Cardinality({s \in InFlight : reqs[s].op = "signup"}) < MaxTokens

SignupStart(s, name, email, password) ==
    /\ reqs[s].pc = "idle"
    /\ LET out == signupStart(name, email, password)
       IN  /\ out.req.pc # "idle" => TokenBudget /\ Len(users) + Cardinality(InFlight) < MaxUsers
           /\ AuthStep(s, out)

SignupSave(s) ==
    /\ reqs[s].op = "signup"
    /\ reqs[s].pc = "saveUser"
    /\ AuthStep(s, signupSave(reqs[s]))

Login(email, password) ==
    /\ login(email, password).res.token \notin issued \cup {NoToken} => TokenBudget
    /\ AuthAtomic(login(email, password))

Logout(hdr) == AuthAtomic(logout(hdr))
GetProfile(hdr) == AuthAtomic(getProfile(hdr))
Verify(hdr) == AuthAtomic(verify(hdr))

NameInputs == {UndefStr, Str("Ada", 3, 0), Str("A", 1, 2)}
EmailInputs ==
    {NoEmail, Email("ada@x.com", FALSE, TRUE), Email("ada@x.com", TRUE, TRUE),
     Email("bob@x.com", FALSE, TRUE), Email("ada.x.com", FALSE, FALSE)}
PasswordInputs == {NoPassword, Password("secret1", "", 7), Password("hunter22", "", 8),
                   Password("abc", "", 3)}

\* what a client can make of a token it holds: drop the signature segment,
\* sign the payload with a key of its own, push the expiry back or name
\* another subject while keeping the signature
Tampered(token) ==
    {SubSeq(token, 1, 2),
     [token EXCEPT ![3].key = "guess"],
     [token EXCEPT ![2].payload.exp = @ + ExpiresInSeconds],
     [token EXCEPT ![2].payload.id = 3 - @]}
\* three segments that are no JWT
Garbage == <<Segment("x", NoPayload, ""), Segment("y", NoPayload, ""),
             Segment("z", NoPayload, "")>>
AuthHeaders ==
    issued \cup UNION {Tampered(t) : t \in issued} \cup {NoToken, Garbage}

HalfLife == (ExpiresInSeconds * MsPerSecond) \div 2

AuthInit ==
    /\ users = <<>>
    /\ issued = {}
    /\ loggedOut = {}
    /\ chats = <<>>
    /\ nextId = 0
    /\ now = 0
    /\ reqs = [s \in Slots |-> IdleReq]

DoSignupStart ==
    \E s \in Slots, n \in NameInputs, e \in EmailInputs, p \in PasswordInputs :
        SignupStart(s, n, e, p)
DoSignupSave == \E s \in Slots : SignupSave(s)
DoLogin == \E e \in EmailInputs, p \in PasswordInputs : Login(e, p)
DoLogout == \E hdr \in AuthHeaders : Logout(hdr)
DoGetProfile == \E hdr \in AuthHeaders : GetProfile(hdr)
DoVerify == \E hdr \in AuthHeaders : Verify(hdr)
TickHalfLife == Tick(HalfLife, MaxAge * HalfLife)

AuthNext ==
    \/ DoSignupStart
    \/ DoSignupSave
    \/ DoLogin
    \/ DoLogout
    \/ DoGetProfile
    \/ DoVerify
    \/ TickHalfLife

AuthSpec == AuthInit /\ [][AuthNext]_vars

(***************************************************************************)
(* The registration runs: the identity collection is empty and signup      *)
(* requests interleave at their await points; clients log in with what     *)
(* they registered.                                                        *)
(***************************************************************************)
SignupSlots == 1..MaxSignups

SignupInit ==
    /\ users = <<>>
    /\ issued = {}
    /\ loggedOut = {}
    /\ chats = <<>>
    /\ nextId = 0
    /\ now = 0
    /\ reqs = [s \in SignupSlots |-> IdleReq]

\* the passwords of the authentication runs and two of 73 characters that
\* differ in the last one
SignupPasswords ==
    PasswordInputs \cup {Password("seventy-two characters", "x", BcryptInputBytes + 1),
                         Password("seventy-two characters", "y", BcryptInputBytes + 1)}

\* the names of the authentication runs, a name of white space only, a
\* padded one and one of 51 characters
SignupNames ==
    NameInputs \cup {Str("", 0, 3), Str("Grace", 5, 2), Str("fifty-one", MaxNameLen + 1, 0)}

RaceSignupStart ==
    \E s \in SignupSlots, n \in SignupNames, e \in EmailInputs, p \in SignupPasswords :
        SignupStart(s, n, e, p)
RaceSignupSave == \E s \in SignupSlots : SignupSave(s)
RaceLogin == \E e \in EmailInputs, p \in SignupPasswords : Login(e, p)

SignupNext ==
    \/ RaceSignupStart
    \/ RaceSignupSave
    \/ RaceLogin

SignupSpec == SignupInit /\ [][SignupNext]_vars

(***************************************************************************)
(* Properties of the chat runs.                                            *)
(***************************************************************************)
\* the identity a header authenticates, 0 when it authenticates none
Bearer(hdr) == IF authenticateToken(hdr).ok THEN authenticateToken(hdr).user ELSE 0

\* the chats of another identity than u
ChatsOfOthers(u) == {c \in DOMAIN chats : chats[c].userId # u}

\* sendMessage refuses the body before it looks the chat up
RefusedMessage(m) == Falsy(m) \/ Length(Trim(m)) = 0 \/ Length(m) > MaxContentLen
\* updateChatTitle refuses the body before it looks the chat up
RefusedTitle(t) == Falsy(t) \/ Length(Trim(t)) = 0 \/ Length(t) > MaxTitleLen

\* every listing a history request holds or can be given shows only chats of
\* the identity that asks, and the count it answers counts only those
ListingsAreOwn ==
    /\ \A hdr \in Headers, q \in HistoryQueries :
           \A o \in SortedByRecency(ActiveChats(Bearer(hdr))) :
               LET items == getChatHistoryFind(hdr, q[1], q[2], o).req.items
               IN  \A i \in DOMAIN items : chats[items[i].id].userId = Bearer(hdr)
    /\ \A s \in Slots :
           reqs[s].op = "getChatHistory" =>
               /\ \A i \in DOMAIN reqs[s].items :
                      chats[reqs[s].items[i].id].userId = reqs[s].user
               /\ getChatHistoryCount(reqs[s]).res.pagination.totalChats
                      <= Cardinality({c \in DOMAIN chats : chats[c].userId = reqs[s].user})

\* C1 as the specification states it: an authenticated user who passes the
\* id of a chat of another user to sendMessage, getChat, deleteChat or
\* updateChatTitle is answered 404 whatever the rest of the request is, the
\* chat is unchanged, and it is in no history listing or count of that user.
C1_AlwaysNotFound ==
    /\ \A hdr \in Headers :
           Bearer(hdr) # 0 =>
               \A c \in ChatsOfOthers(Bearer(hdr)) :
                   /\ \A m \in MessageInputs, rnd \in Rands :
                          /\ sendMessageStart(hdr, m, Oid(c), rnd).res.status = 404
                          /\ sendMessageStart(hdr, m, Oid(c), rnd).chats = chats
                          /\ sendMessageStart(hdr, m, Oid(c), rnd).req = IdleReq
                   /\ \A l \in MessageLimits :
                          /\ getChat(hdr, Oid(c), l).res.status = 404
                          /\ getChat(hdr, Oid(c), l).chats = chats
                   /\ deleteChat(hdr, Oid(c)).res.status = 404
                   /\ deleteChat(hdr, Oid(c)).chats = chats
                   /\ \A t \in TitleInputs :
                          /\ updateChatTitle(hdr, Oid(c), t).res.status = 404
                          /\ updateChatTitle(hdr, Oid(c), t).chats = chats
    /\ ListingsAreOwn

\* C1, amended: the answer is 404 unless sendMessage or updateChatTitle
\* refuses the body of the request first, which it answers 400; in either
\* case the chat is unchanged, no request stays in flight, and the chat is
\* in no history listing or count of that user.
C1_NotFoundOrRefused ==
    /\ \A hdr \in Headers :
           Bearer(hdr) # 0 =>
               \A c \in ChatsOfOthers(Bearer(hdr)) :
                   /\ \A m \in MessageInputs, rnd \in Rands :
                          /\ sendMessageStart(hdr, m, Oid(c), rnd).res.status
                                 = IF RefusedMessage(m) THEN 400 ELSE 404
                          /\ sendMessageStart(hdr, m, Oid(c), rnd).chats = chats
                          /\ sendMessageStart(hdr, m, Oid(c), rnd).req = IdleReq
                   /\ \A l \in MessageLimits :
                          /\ getChat(hdr, Oid(c), l).res.status = 404
                          /\ getChat(hdr, Oid(c), l).chats = chats
                   /\ deleteChat(hdr, Oid(c)).res.status = 404
                   /\ deleteChat(hdr, Oid(c)).chats = chats
                   /\ \A t \in TitleInputs :
                          /\ updateChatTitle(hdr, Oid(c), t).res.status
                                 = IF RefusedTitle(t) THEN 400 ELSE 404
                          /\ updateChatTitle(hdr, Oid(c), t).chats = chats
    /\ ListingsAreOwn

\* a chat of the first user holds a message and its reply while the second
\* user, who has a chat of their own, waits for the count of a listing
C1_Witness ==
    /\ \E c \in DOMAIN chats : chats[c].userId = 1 /\ Len(chats[c].messages) >= 2
    /\ \E c \in DOMAIN chats : chats[c].userId = 2
    /\ \E s \in Slots : reqs[s].op = "getChatHistory" /\ reqs[s].user = 2
                        /\ Len(reqs[s].items) > 0

\* the sendMessage requests that have stored their message and hold the
\* reply of the gateway, not yet written
AwaitingReplyWrite == {s \in Slots : reqs[s].op = "sendMessage" /\ reqs[s].pc = "saveAI"}

FallbackTexts ==
    {NotConfiguredText, ProvideMessageText, AuthFailedText, BusyText, UnavailableText,
     FailedText, UnexpectedFormatText}

\* C2: a sendMessage call that has resolved its chat adds exactly one user
\* message and exactly one assistant message to it: when its first write is
\* done the chat holds the message sent as its last one, and the second
\* write appends one message of the assistant and is answered 200; when the
\* gateway reported failure that message is a fallback text, aiServiceStatus
\* is 'error' and aiError is not null.
C2_OneTurnEach ==
    /\ \A s \in Slots :
           reqs[s].op = "sendMessage" /\ reqs[s].pc = "gateway" =>
               LET stored == chats[reqs[s].docId].messages
               IN  /\ Len(stored) >= 1
                   /\ stored[Len(stored)].sender = "user"
                   /\ stored[Len(stored)].content = Trim(reqs[s].message)
    /\ \A s \in AwaitingReplyWrite :
           LET r == reqs[s]
               out == sendMessageSaveAI(r)
               before == chats[r.docId].messages
               after == out.chats[r.docId].messages
           IN  /\ out.res.status = 200
               /\ Len(after) = Len(before) + 1
               /\ SubSeq(after, 1, Len(before)) = before
               /\ after[Len(after)].sender = "ai"
               /\ after[Len(after)].content = r.ai.content
               /\ ~r.ai.success =>
                      /\ r.ai.content \in FallbackTexts
                      /\ out.res.aiServiceStatus = "error"
                      /\ out.res.aiError # "null"

\* C3: a chat is never left with a user message and no reply: whatever text
\* the gateway returned (empty and longer than 5000 characters included) and
\* whatever the second write does, the request that stored the user message
\* leaves a message of the assistant after it.
C3_ReplyAlwaysStored ==
    \A s \in AwaitingReplyWrite :
        LET after == sendMessageSaveAI(reqs[s]).chats[reqs[s].docId].messages
        IN  /\ after[Len(after)].sender = "ai"
            /\ \E i \in DOMAIN after :
                   /\ i < Len(after)
                   /\ after[i].sender = "user"
                   /\ after[i].messageId = reqs[s].doc.messages[Len(reqs[s].doc.messages) - 1].messageId

\* C4: a chatId that is no ObjectId is treated as absent: sendMessage with a
\* message it accepts starts a new chat of the sender, which its first write
\* stores, and writes to no chat that exists.
C4_MalformedIdStartsChat ==
    \A hdr \in Headers, m \in MessageInputs, rnd \in Rands :
        Bearer(hdr) # 0 /\ ~RefusedMessage(m) /\ Budget /\ nextId < MaxChats =>
            LET out == sendMessageStart(hdr, m, MalformedCid, rnd)
            IN  /\ out.res.status # 500
                /\ out.req.pc = "saveUser"
                /\ out.req.isNew
                /\ out.req.docId \notin DOMAIN chats
                /\ out.req.doc.userId = Bearer(hdr)
                /\ out.chats = chats

\* C5: once deleteChat has succeeded for a chat, getChat with its id answers
\* its owner 404.
C5_DeletedIsNotFound ==
    \A hdr \in Headers, c \in DOMAIN chats, l \in MessageLimits :
        Bearer(hdr) = chats[c].userId /\ ~chats[c].isActive =>
            getChat(hdr, Oid(c), l).res.status = 404

\* the chats of identity u that are not deleted, and those that are
Listable(u) == {c \in DOMAIN chats : chats[c].userId = u /\ chats[c].isActive}
Deleted == {c \in DOMAIN chats : ~chats[c].isActive}

\* C6: deleteChat flips a flag.  In every step: each chat stays in the
\* store with the messages it had; a step that takes a chat out of the
\* active ones changes nothing of it but isActive; a deleted chat stays
\* deleted; a history lookup returns no chat that is deleted when it is
\* made, and the count a history request answers counts none.
C6_SoftDelete ==
    [][/\ \A c \in DOMAIN chats :
              /\ c \in DOMAIN chats'
              /\ Len(chats'[c].messages) >= Len(chats[c].messages)
              /\ SubSeq(chats'[c].messages, 1, Len(chats[c].messages)) = chats[c].messages
              /\ chats[c].isActive /\ ~chats'[c].isActive =>
                     chats'[c] = [chats[c] EXCEPT !.isActive = FALSE]
              /\ ~chats[c].isActive => ~chats'[c].isActive
       /\ \A s \in Slots :
              /\ reqs[s].pc = "idle" /\ reqs'[s].op = "getChatHistory" =>
                     \A i \in DOMAIN reqs'[s].items : reqs'[s].items[i].id \notin Deleted
              /\ reqs[s].op = "getChatHistory" /\ reqs[s].pc = "count" =>
                     getChatHistoryCount(reqs[s]).res.pagination.totalChats
                         = Cardinality(Listable(reqs[s].user))
      ]_vars

\* a chat that holds messages is deleted, and its owner waits for the count
\* of a full first page that lists another chat and not the deleted one
C6_Witness ==
    \E c \in Deleted, s \in Slots :
        /\ Len(chats[c].messages) > 0
        /\ reqs[s].op = "getChatHistory"
        /\ reqs[s].user = chats[c].userId
        /\ reqs[s].limit = DefaultHistoryLimit
        /\ reqs[s].page = 1
        /\ Len(reqs[s].items) > 0
        /\ \A i \in DOMAIN reqs[s].items : reqs[s].items[i].id # c
        /\ getChatHistoryCount(reqs[s]).res.pagination.totalChats = 1

(***************************************************************************)
(* Properties of the authentication runs.                                  *)
(***************************************************************************)
\* the token was signed by the issuer: clients hold the tokens issued and
\* cannot sign others
Genuine(hdr) == hdr \in issued
\* the clock is before the expiry the payload of the token states
Fresh(hdr) == now < hdr[2].payload.exp * MsPerSecond

\* C7: authenticateToken lets a request through exactly when the token is
\* signed by the issuer, the time is before its expiry and the identity it
\* names is in the store; req.user is then that identity as the store holds
\* it; every other token is answered 401.
C7_Admission ==
    \A hdr \in AuthHeaders :
        LET a == authenticateToken(hdr)
        IN  /\ a.ok <=> /\ Genuine(hdr)
                        /\ Fresh(hdr)
                        /\ hdr[2].payload.id \in DOMAIN users
            /\ ~a.ok => a.status = 401 /\ getProfile(hdr).res.status = 401
            /\ a.ok => /\ a.user = hdr[2].payload.id
                       /\ getProfile(hdr).res.status = 200
                       /\ getProfile(hdr).res.profile =
                              [id |-> hdr[2].payload.id,
                               name |-> users[hdr[2].payload.id].name,
                               email |-> users[hdr[2].payload.id].email]

\* two tokens were issued; one is let through, the other has expired
C7_Witness ==
    \E t1, t2 \in issued :
        /\ authenticateToken(t1).ok
        /\ ~Fresh(t2)
        /\ ~authenticateToken(t2).ok

\* C8: a token that has not three segments, a token of three segments the
\* issuer did not sign, and a token of the issuer past its expiry are
\* answered 401 with the messages 'Invalid token format', 'Invalid token'
\* and 'Token expired'; no token is answered 500.
C8_DistinctRejections ==
    \A hdr \in AuthHeaders :
        LET a == authenticateToken(hdr)
        IN  /\ a.status # 500
            /\ hdr # NoToken /\ Len(hdr) # 3 =>
                   a.status = 401 /\ a.message = "Invalid token format"
            /\ Len(hdr) = 3 /\ ~Genuine(hdr) =>
                   a.status = 401 /\ a.message = "Invalid token"
            /\ Genuine(hdr) /\ ~Fresh(hdr) =>
                   a.status = 401 /\ a.message = "Token expired"

\* a token has expired, and clients present it as it is, without its
\* signature segment, and signed with a key of their own
C8_Witness ==
    \E t \in issued :
        /\ authenticateToken(t).message = "Token expired"
        /\ authenticateToken(SubSeq(t, 1, 2)).message = "Invalid token format"
        /\ authenticateToken([t EXCEPT ![3].key = "guess"]).message = "Invalid token"

\* C9: logout keeps no list of revoked tokens: a token for which logout has
\* answered 200 is let through, by logout too, as long as it has not expired.
C9_LogoutRevokesNothing ==
    \A t \in loggedOut :
        Fresh(t) => /\ authenticateToken(t).ok
                    /\ verify(t).res.status = 200
                    /\ logout(t).res.status = 200

\* a token was logged out at an earlier clock reading and is still let through
C9_Witness ==
    \E t \in loggedOut : now > 0 /\ Fresh(t) /\ authenticateToken(t).ok

\* C10: login answers an address no identity has and a wrong password for
\* an address an identity has alike: 401, the same body, no token, no
\* profile, and nothing stored.
C10_LoginTellsNothing ==
    \A e1, e2 \in EmailInputs \ {NoEmail}, p1, p2 \in PasswordInputs \ {NoPassword} :
        /\ \A id \in DOMAIN users : users[id].email # toLowerCase(e1)
        /\ \E id \in DOMAIN users :
               users[id].email = toLowerCase(e2) /\ users[id].password # bcryptHash(p2)
        => /\ login(e1, p1).res = login(e2, p2).res
           /\ login(e1, p1).res.status = 401
           /\ login(e1, p1).res.token = NoToken
           /\ login(e1, p1).res.profile = NoProfile
           /\ login(e1, p1).users = users
           /\ login(e2, p2).users = users

\* one address is registered and another is not: a login with a wrong
\* password for the first and a login for the second are both refused
C10_Witness ==
    /\ Len(users) = 1
    /\ login(Email("ada@x.com", TRUE, TRUE), Password("hunter22", "", 8)).res.status = 401
    /\ login(Email("bob@x.com", FALSE, TRUE), Password("hunter22", "", 8)).res.status = 401
    /\ findByEmail(Email("ada@x.com", TRUE, TRUE)) # {}
    /\ findByEmail(Email("bob@x.com", FALSE, TRUE)) = {}

(***************************************************************************)
(* Properties of the registration runs.                                    *)
(***************************************************************************)
\* the identities stored under the address e written in any letter case
StoredAs(e) == {id \in DOMAIN users : users[id].email.text = e.text}

\* the body of a signup passes the checks the handler makes before it
\* looks the address up
PassesBodyChecks(n, e, p) ==
    /\ ~Falsy(n) /\ e # NoEmail /\ p # NoPassword
    /\ e.wellFormed
    /\ p.len >= MinPasswordLen

\* C11: no two stored identities have addresses equal up to letter case; a
\* signup whose address is that of a stored identity up to letter case is
\* answered 409 and stores nothing; and a signup that passed the existence
\* check before another one saved the same address is answered 409 by its
\* own save and stores nothing.
C11_EmailUnique ==
    /\ \A i, j \in DOMAIN users : i # j => users[i].email.text # users[j].email.text
    /\ \A n \in NameInputs, e \in EmailInputs, p \in SignupPasswords :
           PassesBodyChecks(n, e, p) /\ StoredAs(e) # {} =>
               /\ signupStart(n, e, p).res.status = 409
               /\ signupStart(n, e, p).users = users
               /\ signupStart(n, e, p).req = IdleReq
    /\ \A s \in DOMAIN reqs :
           reqs[s].op = "signup" /\ StoredAs(reqs[s].email) # {}
           /\ ValidUser(reqs[s].name, reqs[s].email, reqs[s].password) =>
               /\ signupSave(reqs[s]).res.status = 409
               /\ signupSave(reqs[s]).res.token = NoToken
               /\ signupSave(reqs[s]).users = users

\* an address is stored while a signup with the same address, written in
\* upper case by its client, has passed the existence check and not saved
C11_Witness ==
    \E s \in DOMAIN reqs :
        /\ reqs[s].op = "signup"
        /\ reqs[s].pc = "saveUser"
        /\ StoredAs(reqs[s].email) # {}
        /\ Len(users) = 1
        /\ signupStart(Str("Ada", 3, 0), Email(reqs[s].email.text, TRUE, TRUE),
                       Password("secret1", "", 7)).res.status = 409

\* C12: a signup that stores an identity stores a hash that is not the
\* plaintext password; from then on login with the address registered and
\* the password registered is answered 200 with a token, and login with
\* any other password is answered 401 without one; the profile a response
\* carries holds id, name and email only.
C12_CredentialRoundTrip ==
    [][\A s \in DOMAIN reqs :
           reqs[s].op = "signup" /\ Len(users') = Len(users) + 1 /\ reqs'[s] = IdleReq =>
               /\ users'[Len(users')].password # reqs[s].password
               /\ DOMAIN signupSave(reqs[s]).res.profile = {"id", "name", "email"}
               /\ \A e \in EmailInputs, p \in SignupPasswords \ {NoPassword} :
                      toLowerCase(e) = reqs[s].email =>
                          IF p = reqs[s].password
                          THEN /\ login(e, p)'.res.status = 200
                               /\ login(e, p)'.res.token # NoToken
                               /\ DOMAIN login(e, p)'.res.profile = {"id", "name", "email"}
                          ELSE /\ login(e, p)'.res.status = 401
                               /\ login(e, p)'.res.token = NoToken
      ]_vars

(***************************************************************************)
(* Properties of the chat runs: listings and logs.                         *)
(***************************************************************************)
\* the headers that authenticate an identity
Authenticated == {hdr \in Headers : Bearer(hdr) # 0}

\* the orders in which Chat.find may give the active chats of the bearer
Orders(hdr) == SortedByRecency(ActiveChats(Bearer(hdr)))

\* the response of getChatHistory when the store does not change between
\* its lookup, which gives the order o, and its count
History(hdr, limit, page, o) ==
    getChatHistoryCount(getChatHistoryFind(hdr, limit, page, o).req).res

\* the ids a response of getChatHistory lists
ListedIds(r) == [i \in DOMAIN r.chats |-> r.chats[i].id]

PageSizes == {1, 2}
PageNumbers == {1, 2, 3}

CeilDiv(a, b) == (a + b - 1) \div b

\* C13: with T active chats of the caller, page p and page size L the
\* response lists positions (p-1)*L+1 .. min(p*L, T) of the sorted listing
\* with totalChats = T, totalPages = ceil(T/L), hasNextPage = (p <
\* totalPages) and hasPrevPage = (p > 1); with the store unchanged the
\* pages 1 .. totalPages, each asked for by a request of its own, together
\* list every active chat exactly once; a limit above 100 is answered 400.
C13_Pagination ==
    \A hdr \in Authenticated :
        LET T == Cardinality(Listable(Bearer(hdr)))
        IN  /\ \A L \in PageSizes, p \in PageNumbers, o \in Orders(hdr) :
                   LET r == History(hdr, L, p, o)
                       first == (p - 1) * L + 1
                       last == Min(p * L, T)
                   IN  /\ r.status = 200
                       /\ ListedIds(r) = [i \in 1..(IF last >= first THEN last - first + 1 ELSE 0)
                                              |-> o[first + i - 1]]
                       /\ r.pagination.totalChats = T
                       /\ r.pagination.totalPages = CeilDiv(T, L)
                       /\ r.pagination.hasNextPage = (p < CeilDiv(T, L))
                       /\ r.pagination.hasPrevPage = (p > 1)
            /\ \A L \in PageSizes :
                   \A f \in [1..CeilDiv(T, L) -> Orders(hdr)] :
                       \A c \in Listable(Bearer(hdr)) :
                           Cardinality({<<p, i>> \in (1..CeilDiv(T, L)) \X (1..L) :
                                           /\ i <= Len(History(hdr, L, p, f[p]).chats)
                                           /\ History(hdr, L, p, f[p]).chats[i].id = c}) = 1
            /\ \A o \in Orders(hdr) :
                   getChatHistoryFind(hdr, MaxHistoryLimit + 1, 1, o).res.status = 400

\* C14: getChatHistory lists the active chats of the caller by
\* lastMessageAt, latest first, and chats of equal lastMessageAt in the
\* order of their insertion, so that the store determines the listing.
C14_ListingDetermined ==
    \A hdr \in Authenticated :
        /\ Cardinality(Orders(hdr)) = 1
        /\ \A o \in Orders(hdr) :
               /\ {o[i] : i \in DOMAIN o} = Listable(Bearer(hdr))
               /\ \A i, j \in DOMAIN o :
                      i < j => \/ chats[o[i]].lastMessageAt > chats[o[j]].lastMessageAt
                               \/ /\ chats[o[i]].lastMessageAt = chats[o[j]].lastMessageAt
                                  /\ o[i] < o[j]


\* the log stored for chat c, empty while the chat is not stored
LogOf(store, c) == IF c \in DOMAIN store THEN store[c].messages ELSE <<>>

Last(s) == s[Len(s)]

\* the requests whose chat.save() this step applies to chat c
Saving(c) ==
    {s \in DOMAIN reqs : /\ reqs[s].pc \in {"saveUser", "saveAI"}
                         /\ reqs[s].docId = c
                         /\ reqs'[s] # reqs[s]}

\* C15: appends are monotonic: a write to a log only adds the one message
\* the request added, at the end, so the stored order is the order of the
\* calls; the timestamp of a message is the reading of the server's clock at
\* addMessage, which no field of a request can set; and for appends made
\* one after another (nothing was written to the log between the request's
\* read of it and this write) no stored timestamp is later than that of the
\* message written, so timestamps never decrease along the log.
C15_AppendMonotonic ==
    [][/\ \A s \in DOMAIN reqs :
              /\ reqs'[s].op = "sendMessage"
              /\ reqs'[s].pc \in {"saveUser", "saveAI"}
              /\ reqs'[s] # reqs[s]
              => /\ Last(reqs'[s].doc.messages).timestamp = now
                 /\ reqs[s].pc = "gateway" =>
                        reqs'[s].doc.messages =
                            Append(reqs[s].doc.messages, Last(reqs'[s].doc.messages))
       /\ \A c \in DOMAIN chats' :
              LogOf(chats', c) # LogOf(chats, c) =>
                  \E s \in Saving(c) :
                      LET added == Last(reqs[s].doc.messages)
                          old == LogOf(chats, c)
                      IN  /\ LogOf(chats', c) = Append(old, added)
                          /\ added.timestamp <= now
                          /\ old = SubSeq(reqs[s].doc.messages, 1, Len(reqs[s].doc.messages) - 1)
                             => \A i \in DOMAIN old : old[i].timestamp <= added.timestamp
      ]_vars

\* a log whose second message is later than its first has been stored
C15_Witness ==
    \E c \in DOMAIN chats :
        /\ Len(chats[c].messages) >= 2
        /\ chats[c].messages[1].timestamp < chats[c].messages[2].timestamp


\* the last min(limit, n) entries of an n-entry log, in the order of the log
LastEntries(log, limit) ==
    SubSeq(log, Len(log) - Min(limit, Len(log)) + 1, Len(log))

\* C16: the messages sendMessage (limit 20) and getChat (limit messageLimit,
\* 50 when left out) return are the last min(limit, n) entries of the stored
\* n-entry log in the order of the log, also when neighbouring messages have
\* equal timestamps, and sendMessage returns messageCount = n.
C16_LastEntriesInOrder ==
    /\ \A hdr \in Headers, cid \in ChatIds, limit \in MessageLimits :
           LET res == getChat(hdr, cid, limit).res
           IN  res.status = 200 =>
                   res.messages =
                       LastEntries(chats[cid.n].messages,
                                   IF limit = 0 THEN DefaultMessageLimit ELSE limit)
    /\ \A s \in DOMAIN reqs :
           reqs[s].op = "sendMessage" /\ reqs[s].pc = "saveAI" =>
               LET out == sendMessageSaveAI(reqs[s])
               IN  out.res.status = 200 =>
                       /\ out.res.messages =
                              LastEntries(out.chats[reqs[s].docId].messages, RecentLimit)
                       /\ out.res.messageCount = Len(out.chats[reqs[s].docId].messages)


(***************************************************************************)
(* The gateway runs: sendMessage requests against every outcome of the     *)
(* call upstream.                                                          *)
(***************************************************************************)
UpstreamOutcomes ==
    Upstreams \cup
    {Upstream("noConfig", 0, FALSE, UndefStr),
     Upstream("http", 401, FALSE, UndefStr),
     Upstream("http", 400, FALSE, UndefStr),
     Upstream("http", 503, FALSE, UndefStr),
     Upstream("ok", 200, FALSE, UndefStr),
     Upstream("ok", 200, TRUE, UndefStr)}

GatewayReturns ==
    \E s \in Slots, up \in UpstreamOutcomes, rnd \in Rands : SendGateway(s, up, rnd)

GatewayNext ==
    \/ DoSendStart
    \/ DoSendSaveUser
    \/ GatewayReturns
    \/ DoSendSaveAI
    \/ TickMs

GatewaySpec == Init /\ [][GatewayNext]_vars

\* the logs a handler may pass as chatHistory
Histories ==
    {<<>>} \cup {chats[c].messages : c \in DOMAIN chats}
           \cup {reqs[s].doc.messages : s \in InFlight}

\* C17: for every outcome upstream (no configuration, a failed transport, a
\* status that is not 2xx, a malformed or empty payload, a reply)
\* generateAIResponse returns a result, and a result whose success is false
\* carries one of the fixed texts, which is not empty, and an error reason.
C17_GatewayTotal ==
    /\ \A m \in MessageInputs, h \in Histories, up \in UpstreamOutcomes :
           LET r == generateAIResponse(m, h, up)
           IN  /\ DOMAIN r = {"success", "content", "error"}
               /\ r.success \in BOOLEAN
               /\ ~r.success => /\ r.content \in FallbackTexts
                                /\ Length(r.content) > 0
                                /\ r.error # "null"
               /\ r.success => up.kind = "ok" /\ r.content = up.text
    /\ \A s \in AwaitingReplyWrite :
           ~reqs[s].ai.success => /\ Length(reqs[s].ai.content) > 0
                                  /\ reqs[s].ai.error # "null"
                                  /\ Last(reqs[s].doc.messages).content = reqs[s].ai.content

\* a handler holds the failure result of a payload without candidates
C17_Witness ==
    \E s \in AwaitingReplyWrite :
        /\ ~reqs[s].ai.success
        /\ reqs[s].ai.content = UnexpectedFormatText
        /\ reqs[s].ai.error = "Invalid response format"


(***************************************************************************)
(* Properties of the chat runs: the checks of the request bodies.          *)
(***************************************************************************)
\* C18: sendMessage judges the length of the message after trimming: an
\* authenticated request is answered 400 exactly when the trimmed message is
\* empty or longer than 5000 characters, and a message it accepts is added
\* to the log trimmed and whole.
C18_LengthAfterTrim ==
    \A hdr \in Authenticated, m \in MessageInputs, cid \in ChatIds \cup {NoCid},
       rnd \in Rands :
        LET out == sendMessageStart(hdr, m, cid, rnd)
            tooShortOrLong ==
                Falsy(m) \/ Length(Trim(m)) = 0 \/ Length(Trim(m)) > MaxContentLen
        IN  /\ out.res.status = 400 <=> tooShortOrLong
            /\ out.req.pc = "saveUser" =>
                   Last(out.req.doc.messages).content = Trim(m)


(***************************************************************************)
(* The title runs: chats are created, written to and retitled with titles  *)
(* at and around the bounds.                                               *)
(***************************************************************************)
Hundred == Str("hundred", MaxTitleLen, 0)
Titles ==
    TitleInputs \cup {Str("", 0, 3), Str("padded title", 12, 2), Hundred,
                      Str("padded hundred", MaxTitleLen - 2, 4)}

Retitle == \E hdr \in Headers, cid \in ChatIds, t \in Titles : UpdateChatTitle(hdr, cid, t)

\* sendMessage with a message that passes the checks, and the reply to it
SendHello ==
    \E s \in Slots, hdr \in Headers, cid \in ChatIds \cup {NoCid}, rnd \in Rands :
        SendStart(s, hdr, Hello, cid, rnd)
ReplyArrives ==
    \E s \in Slots, rnd \in Rands :
        SendGateway(s, Upstream("ok", 200, TRUE, Str("Hi there", 8, 0)), rnd)

TitleNext ==
    \/ SendHello
    \/ DoSendSaveUser
    \/ ReplyArrives
    \/ DoSendSaveAI
    \/ DoCreateNewChat
    \/ Retitle
    \/ TickMs

TitleSpec == Init /\ [][TitleNext]_vars

\* C19: updateChatTitle on a chat of the caller succeeds for every title of
\* 1..100 characters that is not only white space, 100 included, and stores
\* it trimmed; an empty, white-space-only or 101-character title is answered
\* 400 and the store stays as it is; so every stored title has 1..100
\* characters.
C19_TitleBounds ==
    /\ \A hdr \in Authenticated, cid \in ChatIds, t \in Titles :
           cid.kind = "oid" /\ findOne(cid.n, Bearer(hdr)) =>
               LET out == updateChatTitle(hdr, cid, t)
               IN  /\ ~Falsy(t) /\ Length(Trim(t)) >= 1 /\ Length(t) <= MaxTitleLen =>
                          /\ out.res.status = 200
                          /\ out.res.title = Trim(t)
                          /\ out.chats = [chats EXCEPT ![cid.n].title = Trim(t)]
                   /\ Falsy(t) \/ Length(Trim(t)) = 0 \/ Length(t) = MaxTitleLen + 1 =>
                          /\ out.res.status = 400
                          /\ out.chats = chats
    /\ \A c \in DOMAIN chats :
           /\ Length(chats[c].title) >= 1
           /\ Length(chats[c].title) <= MaxTitleLen
           /\ chats[c].title = Trim(chats[c].title)

\* a chat made by sendMessage has been given a title of exactly 100
\* characters, and another the trimmed form of a padded title
C19_Witness ==
    /\ \E c \in DOMAIN chats : chats[c].title = Hundred /\ chats[c].messages # <<>>
    /\ \E c \in DOMAIN chats : chats[c].title = Str("padded title", 12, 0)


(***************************************************************************)
(* Properties of the registration runs: the checks of the body.            *)
(***************************************************************************)
\* the body of a signup meets the bounds: a name of 2..50 characters after
\* trimming, a well-formed address, a password of at least 6 characters
GoodBody(n, e, p) ==
    /\ ~Falsy(n) /\ Length(Trim(n)) >= MinNameLen /\ Length(Trim(n)) <= MaxNameLen
    /\ e # NoEmail /\ emailRegexTest(e)
    /\ p # NoPassword /\ p.len >= MinPasswordLen

\* every stored identity meets the bounds, its name trimmed and its address
\* in lower case
StoredIdentitiesGood ==
    \A id \in DOMAIN users :
        /\ Length(users[id].name) >= MinNameLen
        /\ Length(users[id].name) <= MaxNameLen
        /\ users[id].name = Trim(users[id].name)
        /\ emailRegexTest(users[id].email)
        /\ users[id].email = toLowerCase(users[id].email)

\* a signup with a body that does not meet the bounds stores nothing and
\* issues no token, whatever it answers
BadBodyStoresNothing ==
    /\ \A n \in SignupNames, e \in EmailInputs, p \in SignupPasswords :
           ~GoodBody(n, e, p) =>
               /\ signupStart(n, e, p).users = users
               /\ signupStart(n, e, p).res.token = NoToken
    /\ \A s \in DOMAIN reqs :
           reqs[s].op = "signup" /\ ~GoodBody(reqs[s].name, reqs[s].email, reqs[s].password) =>
               /\ signupSave(reqs[s]).users = users
               /\ signupSave(reqs[s]).res.token = NoToken
               /\ signupSave(reqs[s]).res.status = 400

\* a signup that stores an identity stores the name trimmed and the address
\* in lower case
StoresNormalised ==
    \A s \in DOMAIN reqs :
        reqs[s].op = "signup" /\ signupSave(reqs[s]).res.status = 201 =>
            /\ GoodBody(reqs[s].name, reqs[s].email, reqs[s].password)
            /\ Len(signupSave(reqs[s]).users) = Len(users) + 1
            /\ Last(signupSave(reqs[s]).users).name = Trim(reqs[s].name)
            /\ Last(signupSave(reqs[s]).users).email = toLowerCase(reqs[s].email)

\* C20 as stated: signup stores an identity only for a body that meets the
\* bounds, storing the name trimmed and the address in lower case, and
\* answers every other body 400 without storing an identity or issuing a
\* token.
C20_BadBodyAlways400 ==
    /\ StoredIdentitiesGood
    /\ BadBodyStoresNothing
    /\ StoresNormalised
    /\ \A n \in SignupNames, e \in EmailInputs, p \in SignupPasswords :
           ~GoodBody(n, e, p) /\ signupStart(n, e, p).req = IdleReq =>
               signupStart(n, e, p).res.status = 400

\* C20: signup stores an identity only for a body that meets the bounds,
\* storing the name trimmed and the address in lower case; every other body
\* stores no identity and gets no token, and is answered 400 unless only its
\* name fails the bounds and its address is registered already, which is
\* answered 409.
C20_BadBodyRefused ==
    /\ StoredIdentitiesGood
    /\ BadBodyStoresNothing
    /\ StoresNormalised
    /\ \A n \in SignupNames, e \in EmailInputs, p \in SignupPasswords :
           ~GoodBody(n, e, p) /\ signupStart(n, e, p).req = IdleReq =>
               IF PassesBodyChecks(n, e, p) /\ StoredAs(e) # {}
               THEN signupStart(n, e, p).res.status = 409
               ELSE signupStart(n, e, p).res.status = 400

\* a padded name has been stored trimmed while a signup whose name is too
\* short after trimming waits for its save, and a signup with such a name
\* and the address registered is open to the clients
C20_Witness ==
    /\ \E id \in DOMAIN users : users[id].name = Str("Grace", 5, 0)
    /\ \E s \in DOMAIN reqs :
           /\ reqs[s].op = "signup"
           /\ reqs[s].pc = "saveUser"
           /\ Length(reqs[s].name) < MinNameLen
    /\ \E e \in EmailInputs :
           signupStart(Str("A", 1, 2), e, Password("secret1", "", 7)).res.status = 409


(***************************************************************************)
(* The gateway runs with the steps the event loop owes: a save that has    *)
(* been issued takes effect and its continuation runs.  The return of the  *)
(* fetch is up to the provider: generateAIResponse passes fetch no signal  *)
(* and sets no timer, so no step of the program ends a call that is not    *)
(* answered.                                                               *)
(***************************************************************************)
GatewayLiveSpec ==
    /\ Init
    /\ [][GatewayNext]_vars
    /\ WF_vars(DoSendSaveUser)
    /\ WF_vars(DoSendSaveAI)

\* C21: every sendMessage request is answered in the end: a request that
\* waits for the gateway leaves that wait also when the provider never
\* answers, and completes.
C21_SendAlwaysAnswered ==
    \A s \in Slots : (reqs[s].pc # "idle") ~> (reqs[s].pc = "idle")


\* the requests that wait for the gateway
AwaitingGateway == {s \in Slots : reqs[s].op = "sendMessage" /\ reqs[s].pc = "gateway"}

\* C22: the text sent upstream holds, as context, the last entries, at most
\* ten, of the log that precedes the current user message, and then the
\* current user message, once.
C22_ContextThenMessageOnce ==
    \A s \in AwaitingGateway :
        LET log == reqs[s].doc.messages
            before == SubSeq(log, 1, Len(log) - 1)
            text == conversationText(reqs[s].message, log)
            context == SubSeq(text, 1, Len(text) - 1)
        IN  /\ Last(log).content = Trim(reqs[s].message)
            /\ Last(text) = [role |-> "User", content |-> Trim(reqs[s].message)]
            /\ Len(context) = Min(ContextLimit, Len(before))
            /\ \A i \in DOMAIN context :
                   context[i].content =
                       before[Len(before) - Len(context) + i].content


\* log a is the beginning of log b
IsPrefix(a, b) == Len(a) <= Len(b) /\ SubSeq(b, 1, Len(a)) = a

\* C23: the stored log of a chat is append-only: whatever the handlers do,
\* every chat stays stored and its log after a step begins with its log
\* before the step, message for message with content, sender, timestamp and
\* id, and every stored sender is 'user' or 'ai'.
C23_AppendOnly ==
    [][/\ \A c \in DOMAIN chats :
              /\ c \in DOMAIN chats'
              /\ IsPrefix(chats[c].messages, chats'[c].messages)
       /\ \A c \in DOMAIN chats' :
              \A i \in DOMAIN chats'[c].messages :
                  chats'[c].messages[i].sender \in Senders
      ]_vars

\* a chat whose two messages have different timestamps has been read with
\* getChat's default limit, retitled and deleted
C23_Witness ==
    \E c \in DOMAIN chats :
        /\ Len(chats[c].messages) >= 2
        /\ chats[c].messages[1].timestamp < chats[c].messages[2].timestamp
        /\ ~chats[c].isActive
        /\ chats[c].title = Hello


(***************************************************************************)
(* The send runs: sendMessage requests of one user interleave at their     *)
(* await points, on a new chat or on the first chat stored.                *)
(***************************************************************************)
MaxRacers == 2
MaxRaceMsgs == 4
MaxRaceRand == 2

RaceSlots == 1..MaxRacers
RaceRands == 1..MaxRaceRand

RaceInit ==
    /\ users = <<Ada, Bob>>
    /\ issued = {generateToken(1, Ada, 0)}
    /\ loggedOut = {}
    /\ chats = <<>>
    /\ nextId = 0
    /\ now = 0
    /\ reqs = [s \in RaceSlots |-> IdleReq]

RaceSendStart ==
    \E s \in RaceSlots, hdr \in Headers, cid \in {NoCid, Oid(1)}, rnd \in RaceRands :
        /\ reqs[s].pc = "idle"
        /\ LET out == sendMessageStart(hdr, Hello, cid, rnd)
           IN  /\ out.req.pc # "idle" =>
                      /\ StoredMsgs + Pending + 2 <= MaxRaceMsgs
                      /\ out.nextId <= MaxChats
               /\ Step(s, out)
RaceSendSaveUser == \E s \in RaceSlots : SendSaveUser(s)
RaceSendGateway ==
    \E s \in RaceSlots, rnd \in RaceRands :
        SendGateway(s, Upstream("ok", 200, TRUE, Str("Hi there", 8, 0)), rnd)
RaceSendSaveAI == \E s \in RaceSlots : SendSaveAI(s)

SendRaceNext ==
    \/ RaceSendStart
    \/ RaceSendSaveUser
    \/ RaceSendGateway
    \/ RaceSendSaveAI
    \/ TickMs

SendRaceSpec == RaceInit /\ [][SendRaceNext]_vars


(***************************************************************************)
(* Properties of the send runs.                                            *)
(***************************************************************************)
\* C24: in every stored state of a chat with a log that is not empty,
\* lastMessageAt is the timestamp of the last message of the log, also
\* after sendMessage requests on the chat have interleaved.
C24_LastMessageAtIsLast ==
    \A c \in DOMAIN chats :
        chats[c].messages # <<>> =>
            chats[c].lastMessageAt = Last(chats[c].messages).timestamp


\* C25: the ids of the messages of a chat differ from one another in every
\* reachable state, also when two requests add to the chat in the same
\* millisecond.
C25_MessageIdsUnique ==
    \A c \in DOMAIN chats :
        \A i, j \in DOMAIN chats[c].messages :
            i # j => chats[c].messages[i].messageId # chats[c].messages[j].messageId


(***************************************************************************)
(* The naming runs: chats are created by messages of 6, 50, 51 and 60      *)
(* characters and without a message, and written to.                       *)
(***************************************************************************)
NamingMessages ==
    {Hello, Str("fifty", TitlePrefixLen, 0), Str("padded fifty-one", TitlePrefixLen + 1, 2),
     Str("sixty", TitlePrefixLen + 10, 0)}

NamingSend ==
    \E s \in Slots, hdr \in Headers, m \in NamingMessages, cid \in ChatIds \cup {NoCid},
       rnd \in Rands : SendStart(s, hdr, m, cid, rnd)

NamingNext ==
    \/ NamingSend
    \/ DoSendSaveUser
    \/ ReplyArrives
    \/ DoSendSaveAI
    \/ DoCreateNewChat
    \/ TickMs

NamingSpec == Init /\ [][NamingNext]_vars

\* the title the claim gives a chat whose first message is m: its first 50
\* characters, and an ellipsis when it has more
FirstFifty(m) ==
    [id |-> m.id,
     core |-> Min(Length(m), TitlePrefixLen)
              + (IF Length(m) > TitlePrefixLen THEN EllipsisLen ELSE 0),
     pad |-> 0,
     cut |-> Length(m) > TitlePrefixLen]

\* C26: a chat created with a first message has as title the first 50
\* characters of the message, followed by an ellipsis only when the message
\* is longer; a chat created without a message and without a title has the
\* title 'New Chat'; and a write that adds a message to a stored chat leaves
\* its title as it is.
C26_TitleOfNewChat ==
    [][/\ \A c \in DOMAIN chats' \ DOMAIN chats :
              /\ chats'[c].messages # <<>> =>
                     chats'[c].title = FirstFifty(chats'[c].messages[1].content)
              /\ \A s \in DOMAIN reqs :
                     reqs[s].docId = c /\ reqs[s].pc = "saveUser" =>
                         chats'[c].messages[1].content = Trim(reqs[s].message)
       /\ \A hdr \in Headers :
              LET out == createNewChat(hdr, UndefStr)
              IN  out.res.status = 201 =>
                      /\ out.chats[out.nextId].title = DefaultTitle
                      /\ out.chats[out.nextId].messages = <<>>
       /\ \A c \in DOMAIN chats :
              c \in DOMAIN chats' /\ chats'[c].messages # chats[c].messages =>
                  chats'[c].title = chats[c].title
      ]_vars

\* a chat made from a message of 60 characters holds the reply as well, next
\* to a chat made without a message and without a title
C26_Witness ==
    /\ \E c \in DOMAIN chats :
           /\ Len(chats[c].messages) >= 2
           /\ chats[c].messages[1].content = Str("sixty", TitlePrefixLen + 10, 0)
           /\ chats[c].title.cut
    /\ \E c \in DOMAIN chats :
           /\ chats[c].title = DefaultTitle
           /\ chats[c].messages = <<>>


(***************************************************************************)
(* Properties of the chat runs: new chats and refusals.                    *)
(***************************************************************************)
\* C27: createNewChat answers 201 to every authenticated request whose
\* title is absent or has 1..100 characters, and stores a new active chat
\* of the caller with an empty log under an id no stored chat has, however
\* many empty chats are stored.
C27_NewChatAlwaysCreated ==
    \A hdr \in Authenticated, t \in TitleInputs :
        Falsy(t) \/ (Length(Trim(t)) >= 1 /\ Length(t) <= MaxTitleLen) =>
            LET out == createNewChat(hdr, t)
                id == out.res.chatId
            IN  /\ out.res.status = 201
                /\ id \notin DOMAIN chats
                /\ DOMAIN out.chats = DOMAIN chats \cup {id}
                /\ \A c \in DOMAIN chats : out.chats[c] = chats[c]
                /\ out.chats[id].userId = Bearer(hdr)
                /\ out.chats[id].isActive
                /\ out.chats[id].messages = <<>>


Refusals == {400, 401, 404}

\* the outcome out is no refusal, or it leaves the store and the count of
\* documents as they are and ends the request
RefusedChangesNothing(out) ==
    out.res.status \in Refusals =>
        /\ out.chats = chats
        /\ out.nextId = nextId
        /\ out.req = IdleReq

\* C28: a chat request that is answered 400, 401 or 404 changes nothing: the
\* stored chats and the title, log, active flag and lastMessageAt of each
\* are as before the request; a refused sendMessage creates no chat and
\* stores no message; and a request that has written is not refused after.
C28_RefusedChangesNothing ==
    /\ \A hdr \in Headers, cid \in ChatIds \cup {NoCid} :
           /\ \A m \in MessageInputs, rnd \in Rands :
                  RefusedChangesNothing(sendMessageStart(hdr, m, cid, rnd))
           /\ \A t \in TitleInputs : RefusedChangesNothing(updateChatTitle(hdr, cid, t))
           /\ RefusedChangesNothing(deleteChat(hdr, cid))
           /\ \A l \in MessageLimits : RefusedChangesNothing(getChat(hdr, cid, l))
    /\ \A hdr \in Headers, q \in HistoryQueries :
           \A o \in SortedByRecency(ActiveChats(Bearer(hdr))) :
               RefusedChangesNothing(getChatHistoryFind(hdr, q[1], q[2], o))
    /\ \A s \in InFlight :
           /\ reqs[s].pc = "saveUser" =>
                  sendMessageSaveUser(reqs[s]).res.status \notin Refusals
           /\ reqs[s].pc = "saveAI" =>
                  sendMessageSaveAI(reqs[s]).res.status \notin Refusals
           /\ reqs[s].op = "getChatHistory" =>
                  getChatHistoryCount(reqs[s]).res.status \notin Refusals

\* a chat of one user is stored with its log while the other user, a request
\* without a token, a malformed id and a message of white space are all
\* refused
C28_Witness ==
    \E c \in DOMAIN chats, hdr \in Authenticated :
        /\ chats[c].userId # Bearer(hdr)
        /\ chats[c].isActive
        /\ chats[c].messages # <<>>
        /\ deleteChat(hdr, Oid(c)).res.status = 404
        /\ updateChatTitle(hdr, Oid(c), Hello).res.status = 404
        /\ sendMessageStart(hdr, Hello, Oid(c), 1).res.status = 404
        /\ sendMessageStart(hdr, Str("", 0, 3), NoCid, 1).res.status = 400
        /\ getChat(NoToken, Oid(c), 0).res.status = 401


\* C29: however two sendMessage requests on one chat interleave, the
\* response of each agrees with the store at the moment it is sent: its
\* messageCount is the number of messages stored in the chat and its
\* messages are the last entries of the stored log.
C29_ResponseAgreesWithStore ==
    \A s \in DOMAIN reqs :
        reqs[s].op = "sendMessage" /\ reqs[s].pc = "saveAI" =>
            LET out == sendMessageSaveAI(reqs[s])
                stored == out.chats[reqs[s].docId].messages
            IN  out.res.status = 200 =>
                    /\ out.res.messageCount = Len(stored)
                    /\ Len(out.res.messages) = Min(RecentLimit, Len(stored))
                    /\ \A m \in {out.res.messages[i] : i \in DOMAIN out.res.messages} :
                           m \in {LastEntries(stored, RecentLimit)[i] :
                                      i \in 1..Min(RecentLimit, Len(stored))}


\* C30: a chat its owner has deleted is closed to the owner: sendMessage
\* with its id and updateChatTitle on it are answered 404, and its log and
\* its title stay as they were.
C30_DeletedIsClosed ==
    \A hdr \in Authenticated, c \in DOMAIN chats :
        chats[c].userId = Bearer(hdr) /\ ~chats[c].isActive =>
            /\ \A rnd \in Rands :
                   /\ sendMessageStart(hdr, Hello, Oid(c), rnd).res.status = 404
                   /\ sendMessageStart(hdr, Hello, Oid(c), rnd).req = IdleReq
            /\ updateChatTitle(hdr, Oid(c), Hello).res.status = 404
            /\ updateChatTitle(hdr, Oid(c), Hello).chats = chats
====
